---- MODULE Spec2Model ----
(***************************************************************************)
(* SMA Solar Webconnect sensor platform                                    *)
(* (homeassistant/components/sensor/sma.py).                               *)
(*                                                                         *)
(* The model follows a configuration through PLATFORM_SCHEMA, through      *)
(* async_setup_platform, and then through the update cycles that the       *)
(* periodic timer starts (async_sma).  A cycle is split at its two await   *)
(* points: the batch read (sma.read) and the join of the notification      *)
(* tasks (asyncio.wait).                                                   *)
(*                                                                         *)
(* Numbers: a Python number is a record [kind, n] with kind "int" or       *)
(* "float"; None is [kind |-> "None", n |-> 0].  Only integer-valued,      *)
(* finite, non-negative factors are drawn, so n is always an integer.      *)
(* A call of vol.Coerce(float) always yields kind "float".                 *)
(***************************************************************************)
EXTENDS Integers, Sequences, FiniteSets, TLC

VARIABLES
    phase,          \* "load" | "rejected" | "validated" | "running"
    raw,            \* the configuration as written by the user
    config,         \* the configuration PLATFORM_SCHEMA returns
    sensor_defs,    \* async_setup_platform's sensor_defs after pruning (line 104)
    _sensor_defs,   \* the dict every SMAsensor keeps (line 167): built before pruning
    hass_sensors,   \* sensor name -> SMAsensor fields
    names_to_query, \* line 127
    backoff,        \* line 130
    pc,             \* the cycle in flight: "idle" (none) | "reading" | "waiting"
    inflight,       \* number of async_sma calls started and not yet returned
    values,         \* line 143
    res,            \* line 145
    tasks,          \* notification tasks created by the cycle and not yet done
    read,           \* history: the latest list sma.read returned
    updated,        \* history: some cycle has updated the sensors
    delta,          \* history: the read of the cycle in flight against the one before
    notified,       \* history: sensors that returned a task in the cycle in flight
    outcome,        \* history: how the latest tick ended
    lastRead,       \* history: what the latest sma.read did
    sinceFail,      \* history: ticks started since a read returned None, until
                    \*   the next read ends (-1: not counting)
    calls           \* history: reads issued since then

vars == <<phase, raw, config, sensor_defs, _sensor_defs, hass_sensors,
          names_to_query, backoff, pc, inflight, values, res, tasks, read,
          updated, delta, notified, outcome, lastRead, sinceFail, calls>>

\* The variables that no longer change once the platform is set up.
setupVars == <<raw, config, sensor_defs, _sensor_defs, names_to_query>>

---------------------------------------------------------------------------
(* Bounds of the model. *)

MaxSensors == 2     \* configured sensors in one configuration
MaxTickCount == 4   \* sinceFail counts the ticks after a failure up to here

---------------------------------------------------------------------------
(* Python values. *)

None == [kind |-> "None", n |-> 0]
Int_(n) == [kind |-> "int", n |-> n]
Float_(n) == [kind |-> "float", n |-> n]

\* Python's != on None and numbers (an int and a float compare by value).
PyNeMutNoneIsZero(a, b) == a.n # b.n
PyNe(a, b) ==
    IF a.kind = "None" \/ b.kind = "None" THEN a.kind # b.kind ELSE a.n # b.n

\* str() of a number, as '{}'.format prints it.
PyStr(v) ==
    CASE v.kind = "None" -> "None"
      [] v.kind = "int" -> ToString(v.n)
      [] v.kind = "float" -> ToString(v.n) \o ".0"

\* Python's // for a non-negative divisor: floor division, a float if either
\* side is a float.  err names the exception raised, "" when none is.
DivKind(val, factor) == IF "float" \in {val.kind, factor.kind} THEN "float" ELSE "int"

FloorDivMutTrunc(val, factor) ==
    CASE val.kind = "None" -> [err |-> "TypeError", v |-> None]
      [] val.kind # "None" /\ factor.n = 0 -> [err |-> "ZeroDivisionError", v |-> None]
      [] OTHER -> [err |-> "",
                   v |-> [kind |-> DivKind(val, factor),
                          n |-> IF val.n < 0 THEN -((-val.n) \div factor.n)
                                ELSE val.n \div factor.n]]
FloorDiv(val, factor) ==
    CASE val.kind = "None" -> [err |-> "TypeError", v |-> None]
      [] val.kind # "None" /\ factor.n = 0 -> [err |-> "ZeroDivisionError", v |-> None]
      [] OTHER -> [err |-> "",
                   v |-> [kind |-> DivKind(val, factor), n |-> val.n \div factor.n]]

---------------------------------------------------------------------------
(* Names, keys and the configurations drawn. *)

SENSOR_OPTIONS ==
    <<"current_consumption", "current_power", "total_consumption", "total_yield">>

BuiltinNames == {SENSOR_OPTIONS[i] : i \in DOMAIN SENSOR_OPTIONS}

\* Names a configuration may declare under `custom`: one new name and one
\* that is also a built-in name.
CustomNames == {"pv_voltage", "total_yield"}

\* Names a configuration may use as a sensor, and as an attribute.
UsedNames == {"current_power", "total_yield", "pv_voltage"}
AttrNames == {"total_yield", "pv_voltage"}

\* The order in which the dict sensor_defs holds its names: the built-in
\* names in SENSOR_OPTIONS order, then the new custom names.
NameOrder == SENSOR_OPTIONS \o <<"pv_voltage">>

Absent == [given |-> FALSE, s |-> "", n |-> 0]
GivenStr(s) == [given |-> TRUE, s |-> s, n |-> 0]
GivenNum(n) == [given |-> TRUE, s |-> "", n |-> n]

\* Custom entries as the user may write them.
CustomEntries ==
    { [key |-> "6380_40251E00", unit |-> GivenStr("V"), factor |-> Absent],
      [key |-> "6380_40251E00", unit |-> GivenStr("V"), factor |-> GivenNum(2)],
      [key |-> "6380_40251E00", unit |-> GivenStr("V"), factor |-> GivenNum(0)],
      [key |-> "6380_40251E0", unit |-> GivenStr("V"), factor |-> Absent],
      [key |-> "6380_40251E000", unit |-> GivenStr("V"), factor |-> GivenNum(2)],
      [key |-> "6380_40251E00", unit |-> Absent, factor |-> Absent] }

PartialFns(D, R) == UNION {[S -> R] : S \in SUBSET D}

\* The attributes listed under one sensor, as the set of names the list holds
\* (the code only tests membership in the list and builds a dict from it).
AttrLists == SUBSET AttrNames

\* The `custom` mappings drawn: none, or one entry under one name.
CustomMaps ==
    {[x \in {} |-> None]} \cup
    UNION {[{name} -> CustomEntries] : name \in CustomNames}

RawConfigs ==
    { [sensors |-> s, custom |-> c] :
        s \in {f \in PartialFns(UsedNames, AttrLists) :
                  Cardinality(DOMAIN f) <= MaxSensors},
        c \in CustomMaps }

\* Raw values the inverter may report for one key; RawNone is a missing value.
RawNone == None
RawValues == {Int_(-1), Int_(123456)}
RawOrNone == RawValues \cup {RawNone}

---------------------------------------------------------------------------
(* Configuration validation (lines 45-74). *)

EmptyMap == [x \in {} |-> None]

\* vol.Length(min=13, max=13) on the key string.
KeyLengthMutMinOnly(key) == Len(key) >= 13
KeyLength(key) == Len(key) >= 13 /\ Len(key) <= 13

\* vol.Optional(CONF_FACTOR, default=1): vol.Coerce(float).
Factor(factor) == Float_(IF factor.given THEN factor.n ELSE 1)

\* CUSTOM_SCHEMA on one custom entry: whether it validates, and the entry
\* it returns.
CUSTOM_SCHEMA(entry) ==
    [ok |-> KeyLength(entry.key) /\ entry.unit.given,
     val |-> [key |-> entry.key, unit |-> entry.unit.s,
              factor |-> Factor(entry.factor)]]

\* _check_sensor_schema: TRUE when it returns conf, FALSE when it raises
\* vol.Invalid.
_check_sensor_schemaMutNoAttrs(conf) ==
    LET valid == (DOMAIN conf.custom) \cup BuiltinNames
    IN  \A sensor \in DOMAIN conf.sensors : sensor \in valid
_check_sensor_schema(conf) ==
    LET valid == (DOMAIN conf.custom) \cup BuiltinNames
    IN  \A sensor \in DOMAIN conf.sensors :
            /\ sensor \in valid
            /\ \A attr \in conf.sensors[sensor] : attr \in valid

\* PLATFORM_SCHEMA: vol.All(the extended schema, _check_sensor_schema).
PLATFORM_SCHEMA(r) ==
    LET schemaOk == \A name \in DOMAIN r.custom : CUSTOM_SCHEMA(r.custom[name]).ok
        conf == [sensors |-> r.sensors,
                 custom |-> [name \in DOMAIN r.custom |->
                                CUSTOM_SCHEMA(r.custom[name]).val]]
    IN  [ok |-> schemaOk /\ _check_sensor_schema(conf), conf |-> conf]

---------------------------------------------------------------------------
(* async_setup_platform (lines 77-130) and SMAsensor.__init__. *)

\* The definitions the library provides (lines 83-87).
SensorDefMutNoDivisor(key, unit, factor) ==
    [key |-> key, unit |-> unit, factor |-> Int_(1)]
SensorDef(key, unit, factor) ==
    [key |-> key, unit |-> unit, factor |-> Int_(factor)]

BuiltinDefs ==
    [name \in BuiltinNames |->
        CASE name = "current_consumption" ->
                SensorDef("KEY_CURRENT_CONSUMPTION_W", "W", 1)
          [] name = "current_power" ->
                SensorDef("KEY_CURRENT_POWER_W", "W", 1)
          [] name = "total_consumption" ->
                SensorDef("KEY_TOTAL_CONSUMPTION_KWH", "kWh", 1000)
          [] name = "total_yield" ->
                SensorDef("KEY_TOTAL_YIELD_KWH", "kWh", 1000)]

\* Lines 83-93: the built-in definitions, each custom entry written over them.
AllSensorDefsMutBuiltinWins(conf) ==
    [name \in BuiltinNames \cup DOMAIN conf.custom |->
        IF name \in BuiltinNames THEN BuiltinDefs[name] ELSE conf.custom[name]]
AllSensorDefs(conf) ==
    [name \in BuiltinNames \cup DOMAIN conf.custom |->
        IF name \in DOMAIN conf.custom THEN conf.custom[name] ELSE BuiltinDefs[name]]

\* Lines 97-101: used_sensors, as the set of names it holds.
used_sensorsMutNoAttrs(conf) == DOMAIN conf.sensors
used_sensors(conf) ==
    (DOMAIN conf.sensors) \cup UNION {conf.sensors[name] : name \in DOMAIN conf.sensors}

\* Lines 104-105.
PruneDefs(defs, used) == [name \in (DOMAIN defs) \cap used |-> defs[name]]

\* SMAsensor.__init__ (lines 162-168).
SMAsensor(sensor_name, attr, defs) ==
    [_name |-> sensor_name,
     _key |-> defs[sensor_name].key,
     _unit_of_measurement |-> defs[sensor_name].unit,
     _state |-> None,
     _attr |-> [att \in attr |-> ""]]

\* Line 127: list(sensor_defs.keys()).
NamesToQuery(defs) == SelectSeq(NameOrder, LAMBDA name : name \in DOMAIN defs)

\* Line 128.
keys_to_query == [i \in DOMAIN names_to_query |-> sensor_defs[names_to_query[i]].key]

---------------------------------------------------------------------------
(* The initial states and the two steps that precede polling. *)

\* delta when no read is being compared.
NoDelta == [kind |-> "none", keys |-> {}]

Init ==
    /\ raw \in RawConfigs
    /\ phase = "load"
    /\ config = [sensors |-> EmptyMap, custom |-> EmptyMap]
    /\ sensor_defs = EmptyMap
    /\ _sensor_defs = EmptyMap
    /\ hass_sensors = EmptyMap
    /\ names_to_query = << >>
    /\ backoff = 0
    /\ pc = "idle"
    /\ inflight = 0
    /\ values = << >>
    /\ res = EmptyMap
    /\ tasks = {}
    /\ read = << >>
    /\ updated = FALSE
    /\ delta = NoDelta
    /\ notified = {}
    /\ outcome = "none"
    /\ lastRead = "none"
    /\ sinceFail = -1
    /\ calls = 0

\* The host validates the platform configuration with PLATFORM_SCHEMA.
Validate ==
    /\ phase = "load"
    /\ LET r == PLATFORM_SCHEMA(raw)
       IN  IF r.ok
           THEN phase' = "validated" /\ config' = r.conf
           ELSE phase' = "rejected" /\ config' = config
    /\ UNCHANGED <<raw, sensor_defs, _sensor_defs, hass_sensors, names_to_query,
                   backoff, pc, inflight, values, res, tasks, read, updated,
                   delta, notified, outcome, lastRead, sinceFail, calls>>

\* async_setup_platform up to the timer registration (line 156).
Setup ==
    /\ phase = "validated"
    /\ LET defs == AllSensorDefs(config)
           pruned == PruneDefs(defs, used_sensors(config))
       IN  /\ _sensor_defs' = defs
           /\ hass_sensors' = [name \in DOMAIN config.sensors |->
                                  SMAsensor(name, config.sensors[name], defs)]
           /\ sensor_defs' = pruned
           /\ names_to_query' = NamesToQuery(pruned)
    /\ backoff' = 0
    /\ phase' = "running"
    /\ UNCHANGED <<raw, config, pc, inflight, values, res, tasks, read, updated,
                   delta, notified, outcome, lastRead, sinceFail, calls>>

---------------------------------------------------------------------------
(* SMAsensor.async_update_values (lines 195-210). *)

\* Line 200: '{} {}'.format(key_values[key], self._sensor_defs[key][1]).
FormatAttrMutOwnUnit(sensor, key, key_values, defs) ==
    PyStr(key_values[key]) \o " " \o sensor._unit_of_measurement
FormatAttr(sensor, key, key_values, defs) ==
    PyStr(key_values[key]) \o " " \o defs[key].unit

\* The value of `update` at line 210, from what lines 199-208 compared.
UpdateFlagMutAlways(attrChanged, stateChanged) == TRUE
UpdateFlagMutStateOnly(attrChanged, stateChanged) == stateChanged
UpdateFlag(attrChanged, stateChanged) == attrChanged \/ stateChanged

\* The sensor after the call, and whether the call returned a task
\* (self.async_update_ha_state()) or None.
async_update_values(sensor, key_values, defs) ==
    LET newattr == [key \in DOMAIN sensor._attr |->
                       FormatAttr(sensor, key, key_values, defs)]
        attrChanged == \E key \in DOMAIN sensor._attr : sensor._attr[key] # newattr[key]
        new_state == key_values[sensor._name]
        stateChanged == PyNe(new_state, sensor._state)
    IN  [sensor |-> [sensor EXCEPT !._attr = newattr,
                                   !._state = IF stateChanged THEN new_state ELSE @],
         task |-> UpdateFlag(attrChanged, stateChanged)]

---------------------------------------------------------------------------
(* The update cycle async_sma (lines 132-153) and the timer that starts it. *)

\* The host's periodic timer (async_track_time_interval, line 156) starts
\* async_sma; a tick begins only when the previous cycle has finished.
TimerMayFireMutAlways == TRUE
TimerMayFire == pc = "idle"

\* Line 135.
InBackoffMutGeq(b) == b >= 1
InBackoffMutAboveTwo(b) == b > 2
InBackoff(b) == b > 1

\* Line 136: backoff -= 1.
BackoffCountDownMutStay(b) == b
BackoffCountDown(b) == b - 1

\* Line 141.
BackoffOnFailure == 3

\* Lines 137 and 142: the cycle returns before the sensor loop of line 148,
\* so it leaves the sensors as it found them.
ReturnEarlyMutReset(sensors) ==
    [name \in DOMAIN sensors |-> [sensors[name] EXCEPT !._state = None]]
ReturnEarly(sensors) == sensors

\* Line 153: asyncio.wait returns when no task it was given is still pending
\* (its default, return_when=ALL_COMPLETED).
WaitDoneMutFirstCompleted(pending) == pending = {} \/ pending # notified
WaitDone(pending) == pending = {}

\* Line 143 for one value.
ZeroIfNoneMutKeep(val) == val
ZeroIfNone(val) == IF val = None THEN Int_(0) ELSE val

\* Line 144: dict(zip(names_to_query, values)).
ZipMutReversed(names, vals) ==
    [name \in {names[i] : i \in DOMAIN names} |->
        vals[Len(names) + 1 - (CHOOSE i \in DOMAIN names : names[i] = name)]]
Zip(names, vals) ==
    [name \in {names[i] : i \in DOMAIN names} |->
        vals[CHOOSE i \in DOMAIN names : names[i] = name]]

\* Line 145 for one name.
Normalize(val, def) == FloorDiv(val, def.factor)

\* The exception line 145 raises on `divided`, "" when it raises none: the
\* dict comprehension stops at the first name that fails.
FirstError(divided) ==
    LET bad == {i \in DOMAIN names_to_query : divided[names_to_query[i]].err # ""}
    IN  IF bad = {} THEN ""
        ELSE divided[names_to_query[CHOOSE i \in bad : \A j \in bad : i <= j]].err

\* A timer tick: async_sma runs to its first await (line 139) or returns at
\* line 137.
Tick ==
    /\ phase = "running"
    /\ TimerMayFire
    /\ sinceFail' = IF sinceFail < 0 \/ sinceFail >= MaxTickCount THEN -1
                    ELSE sinceFail + 1
    /\ IF InBackoff(backoff)
       THEN /\ backoff' = BackoffCountDown(backoff)
            /\ hass_sensors' = ReturnEarly(hass_sensors)
            /\ outcome' = "skipped"
            /\ calls' = IF sinceFail' < 0 THEN 0 ELSE calls
            /\ UNCHANGED <<pc, inflight, lastRead>>
       ELSE /\ pc' = "reading"
            /\ inflight' = inflight + 1
            /\ outcome' = "pending"
            /\ lastRead' = "pending"
            /\ calls' = IF sinceFail' < 0 THEN 0 ELSE calls + 1
            /\ UNCHANGED <<backoff, hass_sensors>>
    /\ UNCHANGED <<phase, setupVars, values, res, tasks, read, updated, delta,
                   notified>>

\* sma.read returns None (lines 140-142).
ReadNone ==
    /\ pc = "reading"
    /\ backoff' = BackoffOnFailure
    /\ pc' = "idle"
    /\ inflight' = inflight - 1
    /\ outcome' = "backoff"
    /\ lastRead' = "None"
    /\ hass_sensors' = ReturnEarly(hass_sensors)
    /\ sinceFail' = 0
    /\ calls' = 0
    /\ UNCHANGED <<phase, setupVars, values, res, tasks, read, updated, delta,
                   notified>>

\* sma.read raises: nothing in async_sma catches it, the call ends at line 139.
ReadRaises ==
    /\ pc = "reading"
    /\ pc' = "idle"
    /\ inflight' = inflight - 1
    /\ outcome' = "raised"
    /\ lastRead' = "raised"
    /\ sinceFail' = -1
    /\ calls' = 0
    /\ UNCHANGED <<phase, setupVars, hass_sensors, backoff, values, res, tasks,
                   read, updated, delta, notified>>

\* sma.read returns one value per key (lines 143-151, and line 152 when no
\* task was created).  dev is what the inverter reports for each key.
ReadReturns ==
    /\ pc = "reading"
    /\ \E dev \in [{keys_to_query[i] : i \in DOMAIN keys_to_query} -> RawOrNone] :
        LET got == [i \in DOMAIN keys_to_query |-> dev[keys_to_query[i]]]
            vals == [i \in DOMAIN got |-> ZeroIfNone(got[i])]
            zipped == Zip(names_to_query, vals)
            divided == [key \in DOMAIN zipped |->
                           Normalize(zipped[key], sensor_defs[key])]
            newres == [key \in DOMAIN divided |-> divided[key].v]
            upd == [name \in DOMAIN hass_sensors |->
                       async_update_values(hass_sensors[name], newres, _sensor_defs)]
            newtasks == {name \in DOMAIN hass_sensors : upd[name].task}
        IN  /\ read' = got
            /\ values' = vals
            /\ lastRead' = "values"
            /\ IF FirstError(divided) # ""
               THEN /\ outcome' = FirstError(divided)
                    /\ pc' = "idle"
                    /\ inflight' = inflight - 1
                    /\ UNCHANGED <<res, hass_sensors, tasks, updated, delta,
                                   notified>>
               ELSE /\ res' = newres
                    /\ hass_sensors' = [name \in DOMAIN hass_sensors |->
                                           upd[name].sensor]
                    /\ tasks' = newtasks
                    /\ notified' = newtasks
                    /\ updated' = TRUE
                    /\ delta' = IF updated
                                THEN [kind |-> "compared",
                                      keys |-> {keys_to_query[i] :
                                                  i \in {j \in DOMAIN got :
                                                            got[j] # read[j]}}]
                                ELSE [kind |-> "first", keys |-> {}]
                    /\ outcome' = "pending"
                    /\ pc' = "waiting"
                    /\ UNCHANGED inflight
    /\ sinceFail' = -1
    /\ calls' = 0
    /\ UNCHANGED <<phase, setupVars, backoff>>

\* One notification task (async_update_ha_state) finishes.
TaskDone ==
    /\ pc = "waiting"
    /\ \E name \in tasks : tasks' = tasks \ {name}
    /\ UNCHANGED <<phase, setupVars, hass_sensors, backoff, pc, inflight, values,
                   res, read, updated, delta, notified, outcome, lastRead,
                   sinceFail, calls>>

\* async_sma returns: asyncio.wait (line 153) has seen every task done, or
\* line 152 found no task to wait for.
Return ==
    /\ pc = "waiting"
    /\ WaitDone(tasks)
    /\ pc' = "idle"
    /\ inflight' = inflight - 1
    /\ outcome' = "completed"
    /\ delta' = NoDelta
    /\ notified' = {}
    /\ UNCHANGED <<phase, setupVars, hass_sensors, backoff, values, res, tasks,
                   read, updated, lastRead, sinceFail, calls>>

Next ==
    \/ Validate
    \/ Setup
    \/ Tick
    \/ ReadNone
    \/ ReadRaises
    \/ ReadReturns
    \/ TaskDone
    \/ Return

Spec == Init /\ [][Next]_vars

---------------------------------------------------------------------------
(* Properties. *)

\* The sensors that use definition `name`, as their own name or as an attribute.
Refs(name) ==
    {s \in DOMAIN hass_sensors : s = name \/ name \in DOMAIN hass_sensors[s]._attr}

\* The sensors that use a definition whose key is `key`.
RefsKey(key) ==
    UNION {Refs(name) : name \in {n \in DOMAIN _sensor_defs : _sensor_defs[n].key = key}}

\* The latest tick polled, got a list, and no exception ended the cycle.
CycleUpdated == lastRead = "values" /\ outcome \in {"pending", "completed"}

\* C1 as amended: after a read that returned None, the next 2 ticks issue no
\* network call (they only count the backoff down), and the 3rd tick issues
\* exactly one.
C1_TwoTicksSkippedThirdPolls ==
    /\ sinceFail = 0 => (backoff = 3 /\ pc = "idle")
    /\ sinceFail \in 1..2 => (outcome = "skipped" /\ pc = "idle" /\ calls = 0)
    /\ sinceFail = 3 => (pc = "reading" /\ calls = 1)

C1_Witness == sinceFail = 3 /\ pc = "reading" /\ calls = 1 /\ backoff = 1

\* C1 as stated: after a read that returned None, the next 3 ticks issue no
\* network call and the 4th tick issues exactly one.
C1_ThreeTicksSkippedFourthPolls ==
    /\ sinceFail \in 1..3 => (outcome = "skipped" /\ pc = "idle" /\ calls = 0)
    /\ sinceFail = 4 => (pc = "reading" /\ calls = 1)

\* C2 as stated: whenever the read fails, by raising or by returning None,
\* the cycle sets the backoff counter to 3 and returns, and no sensor is
\* updated or notified.
C2_FailedReadEntersBackoff ==
    [][(pc = "reading" /\ lastRead' \in {"None", "raised"})
          => /\ backoff' = 3
             /\ pc' = "idle"
             /\ hass_sensors' = hass_sensors
             /\ tasks' = {} /\ notified' = {}]_vars

\* C3 as stated: a tick whose read returned a list (every value a number or
\* missing) never ends in an exception, whatever the accepted configuration.
C3_ReturnedResultNeverRaises ==
    lastRead = "values" => outcome \in {"pending", "completed"}

\* C4: when the list read holds None for a name K, line 143 makes the value
\* zero, every sensor that uses K shows zero (state and attribute string),
\* and the cycle goes on as a success: no backoff, no exception from the
\* missing value.
C4_MissingValueIsZero ==
    (lastRead = "values" /\ \E i \in DOMAIN read : read[i] = RawNone) =>
        /\ backoff <= 1
        /\ outcome # "TypeError"
        /\ (\A n \in DOMAIN sensor_defs : sensor_defs[n].factor.n # 0) => CycleUpdated
        /\ \A i \in DOMAIN read : read[i] = RawNone =>
              LET K == names_to_query[i]
              IN  /\ values[i] = Int_(0)
                  /\ CycleUpdated =>
                        /\ res[K].kind # "None" /\ res[K].n = 0
                        /\ \A s \in Refs(K) :
                              /\ s = K => /\ hass_sensors[s]._state.kind # "None"
                                          /\ hass_sensors[s]._state.n = 0
                              /\ K \in DOMAIN hass_sensors[s]._attr =>
                                    hass_sensors[s]._attr[K] \in
                                        {"0 " \o _sensor_defs[K].unit,
                                         "0.0 " \o _sensor_defs[K].unit}

C4_Witness ==
    /\ lastRead = "values" /\ outcome = "completed" /\ backoff = 1
    /\ \E i \in DOMAIN read :
          /\ read[i] = RawNone
          /\ \E s \in DOMAIN hass_sensors :
                /\ s # names_to_query[i]
                /\ names_to_query[i] \in DOMAIN hass_sensors[s]._attr
                /\ hass_sensors[s]._attr[names_to_query[i]] = "0 kWh"
          /\ names_to_query[i] \in DOMAIN hass_sensors
          /\ hass_sensors[names_to_query[i]]._state = Int_(0)

\* C5: when a cycle reads the same list as the cycle that last updated the
\* sensors, no sensor returns a notification task.
C5_IdenticalReadNotifiesNobody ==
    (delta.kind = "compared" /\ delta.keys = {}) => (notified = {} /\ tasks = {})

C5_Witness ==
    /\ delta.kind = "compared" /\ delta.keys = {}
    /\ pc = "waiting" /\ notified = {}
    /\ Cardinality(DOMAIN hass_sensors) = 2
    /\ \E s \in DOMAIN hass_sensors : DOMAIN hass_sensors[s]._attr # {}

\* C6: when exactly one key's value differs from the read that last updated
\* the sensors, every sensor notified uses that key: a sensor that does not
\* use it is not notified.
C6_OnlyUsersOfChangedKeyNotified ==
    (delta.kind = "compared" /\ Cardinality(delta.keys) = 1) =>
        \A key \in delta.keys : notified \subseteq RefsKey(key)

C6_Witness ==
    /\ delta.kind = "compared" /\ Cardinality(delta.keys) = 1
    /\ notified # {}
    /\ \E key \in delta.keys :
          /\ notified \subseteq RefsKey(key)
          /\ \E s \in DOMAIN hass_sensors : s \notin RefsKey(key) /\ s \notin notified
          /\ \E s \in notified : hass_sensors[s]._key # key

\* Every sensor name and every attribute name of configuration r is one of
\* the 4 built-in names or is declared under `custom`.
NamesResolve(r) ==
    ((DOMAIN r.sensors) \cup UNION {r.sensors[n] : n \in DOMAIN r.sensors})
        \subseteq ({"current_consumption", "current_power", "total_consumption",
                    "total_yield"} \cup DOMAIN r.custom)

\* Every custom entry of configuration r has a 13-character key and a unit.
CustomWellFormed(r) ==
    \A n \in DOMAIN r.custom : Len(r.custom[n].key) = 13 /\ r.custom[n].unit.given

C8_DisplayedValueIsQuotient ==
    /\ \A n \in {"total_yield", "total_consumption"} :
          BuiltinDefs[n].factor = Int_(1000) /\ BuiltinDefs[n].unit = "kWh"
    /\ \A n \in {"current_power", "current_consumption"} :
          BuiltinDefs[n].factor = Int_(1) /\ BuiltinDefs[n].unit = "W"
    /\ updated =>
          \A i \in DOMAIN names_to_query :
             LET name == names_to_query[i]
                 d == sensor_defs[name].factor.n
                 r == values[i].n
                 q == res[name].n
             IN  r >= 0 =>
                    /\ d * q <= r /\ r < d * (q + 1)
                    /\ name \in DOMAIN hass_sensors =>
                          hass_sensors[name]._state.n = q
                    /\ (name = "total_yield" /\ name \notin DOMAIN config.custom
                            /\ r = 123456) =>
                          /\ res[name] = Int_(123)
                          /\ name \in DOMAIN hass_sensors =>
                                /\ hass_sensors[name]._state = Int_(123)
                                /\ hass_sensors[name]._unit_of_measurement = "kWh"

C8_Witness ==
    /\ updated /\ outcome = "completed"
    /\ "total_yield" \in DOMAIN hass_sensors
    /\ "total_yield" \notin DOMAIN config.custom
    /\ \E i \in DOMAIN names_to_query :
          names_to_query[i] = "total_yield" /\ values[i] = Int_(123456)
    /\ hass_sensors["total_yield"]._state = Int_(123)
    /\ hass_sensors["total_yield"]._unit_of_measurement = "kWh"

C10_CustomEntryShape ==
    phase \in {"validated", "running"} =>
        \A n \in DOMAIN raw.custom :
            /\ Len(raw.custom[n].key) = 13
            /\ raw.custom[n].unit.given
            /\ config.custom[n].key = raw.custom[n].key
            /\ config.custom[n].unit = raw.custom[n].unit.s
            /\ config.custom[n].factor.kind = "float"
            /\ config.custom[n].factor.n =
                  IF raw.custom[n].factor.given THEN raw.custom[n].factor.n ELSE 1

C10_Witness ==
    /\ phase = "running"
    /\ \E n \in DOMAIN raw.custom :
          /\ ~raw.custom[n].factor.given
          /\ n \in DOMAIN sensor_defs
          /\ sensor_defs[n].factor = Float_(1)

\* A step taken by a timer tick: in a running platform with no cycle in
\* flight, a tick is the only thing that can happen.
AtTick == phase = "running" /\ pc = "idle"

\* C11: a tick attempts a poll exactly when the backoff counter is at most 1
\* as the tick starts; a tick that finds the counter above 1 lowers it by
\* exactly one, issues no network call and changes nothing else.
C11_TickPollsIffBackoffAtMostOne ==
    [][AtTick =>
          /\ pc' = "reading" <=> backoff <= 1
          /\ backoff <= 1 =>
                /\ inflight' = inflight + 1
                /\ lastRead' = "pending"
                /\ backoff' = backoff
          /\ backoff > 1 =>
                /\ backoff' = backoff - 1
                /\ pc' = "idle" /\ inflight' = inflight /\ lastRead' = lastRead
                /\ UNCHANGED <<phase, setupVars, hass_sensors, values, res,
                               tasks, read, updated, delta, notified>>]_vars

C11_Witness ==
    /\ AtTick /\ outcome = "skipped" /\ backoff = 2 /\ sinceFail = 1
    /\ lastRead = "None" /\ inflight = 0

\* The names some configured sensor refers to, as its own name or as one of
\* its attributes.
ConfiguredNames ==
    (DOMAIN config.sensors)
        \cup UNION {config.sensors[name] : name \in DOMAIN config.sensors}

\* C12: the names polled on every tick are exactly the names some configured
\* sensor refers to (its own name or an attribute): a definition nothing
\* refers to is never polled, each polled name is polled once under its
\* definition's key, and every name a sensor looks up during an update is in
\* the normalized result mapping, so no lookup fails.
C12_PolledNamesAreReferencedNames ==
    phase = "running" =>
        LET polled == {names_to_query[i] : i \in DOMAIN names_to_query}
        IN  /\ polled = ConfiguredNames
            /\ Cardinality(polled) = Len(names_to_query)
            /\ DOMAIN sensor_defs = polled
            /\ Len(keys_to_query) = Len(names_to_query)
            /\ \A i \in DOMAIN names_to_query :
                  keys_to_query[i] = _sensor_defs[names_to_query[i]].key
            /\ DOMAIN hass_sensors = DOMAIN config.sensors
            /\ \A s \in DOMAIN hass_sensors :
                  /\ DOMAIN hass_sensors[s]._attr = config.sensors[s]
                  /\ ({s} \cup DOMAIN hass_sensors[s]._attr) \subseteq DOMAIN _sensor_defs
                  /\ updated =>
                        /\ DOMAIN res = polled
                        /\ ({s} \cup DOMAIN hass_sensors[s]._attr) \subseteq DOMAIN res

C12_Witness ==
    /\ phase = "running" /\ updated /\ outcome = "completed"
    /\ DOMAIN hass_sensors = {"current_power"}
    /\ DOMAIN hass_sensors["current_power"]._attr = {"total_yield"}
    /\ names_to_query = <<"current_power", "total_yield">>
    /\ DOMAIN res = {"current_power", "total_yield"}
    /\ "current_consumption" \in DOMAIN _sensor_defs

\* The unit of the definition configured under `name`: the custom entry's
\* when there is one, the built-in's otherwise.
UnitOf(name) ==
    IF name \in DOMAIN config.custom THEN config.custom[name].unit
    ELSE IF name \in {"total_yield", "total_consumption"} THEN "kWh" ELSE "W"

\* C13: once a cycle has updated the sensors, each sensor's state is the
\* normalized value of its own name, and each of its attributes holds
\* "<value> <unit>" where value is the normalized value of the attribute's
\* name and unit is the unit of the attribute's own definition, not the unit
\* of the sensor that carries the attribute.
C13_StateAndAttributesFollowResult ==
    updated =>
        \A s \in DOMAIN hass_sensors :
            /\ hass_sensors[s]._state = res[s]
            /\ \A a \in DOMAIN hass_sensors[s]._attr :
                  hass_sensors[s]._attr[a] = PyStr(res[a]) \o " " \o UnitOf(a)

C13_Witness ==
    /\ updated /\ outcome = "completed"
    /\ config.custom = EmptyMap
    /\ DOMAIN hass_sensors = {"current_power"}
    /\ hass_sensors["current_power"]._unit_of_measurement = "W"
    /\ hass_sensors["current_power"]._state = Int_(-1)
    /\ hass_sensors["current_power"]._attr = [a \in {"total_yield"} |-> "123 kWh"]

\* C14: a sensor's async_update_values returns a notification task exactly
\* when the sensor's state or at least one of its attribute strings after
\* the call differs from what it held before the call; when nothing differs
\* it returns no task and leaves state and attributes as they were.
C14_NotifiedIffSomethingChanged ==
    [][(pc = "reading" /\ pc' = "waiting") =>
          \A s \in DOMAIN hass_sensors :
              LET before == hass_sensors[s]
                  after == hass_sensors'[s]
              IN  /\ s \in tasks' <=>
                        \/ after._state # before._state
                        \/ \E a \in DOMAIN before._attr :
                              after._attr[a] # before._attr[a]
                  /\ s \notin tasks' => after = before]_vars

C14_Witness ==
    /\ pc = "waiting" /\ delta.kind = "compared" /\ tasks = notified
    /\ \E s \in notified, t \in DOMAIN hass_sensors \ notified :
          /\ hass_sensors[s]._key \notin delta.keys
          /\ hass_sensors[s]._attr # EmptyMap
          /\ hass_sensors[t]._state # None

\* C15: the notification tasks of a cycle are all created before the cycle
\* waits, and the cycle waits for all of them: while one of its tasks is
\* pending the cycle has not completed, and once it has returned no task is
\* pending.
C15_CycleWaitsForAllTasks ==
    /\ tasks \subseteq notified
    /\ notified \subseteq DOMAIN hass_sensors
    /\ tasks # {} => (pc = "waiting" /\ outcome = "pending" /\ inflight = 1)
    /\ pc \in {"idle", "reading"} => tasks = {}
    /\ outcome = "completed" => tasks = {}

C15_Witness ==
    /\ pc = "waiting" /\ outcome = "pending"
    /\ Cardinality(notified) = 2 /\ Cardinality(tasks) = 1

\* C16: a custom definition under the name of a built-in one replaces it:
\* the key polled for that name, the unit shown by a sensor of that name and
\* in attribute strings of that name, and the divisor applied to its raw
\* value are the custom entry's.
C16_CustomShadowsBuiltin ==
    phase = "running" =>
        \A name \in (DOMAIN config.custom) \cap
                    {"current_consumption", "current_power",
                     "total_consumption", "total_yield"} :
            LET custom == config.custom[name]
            IN  /\ _sensor_defs[name] = custom
                /\ \A i \in DOMAIN names_to_query :
                      names_to_query[i] = name =>
                         /\ keys_to_query[i] = custom.key
                         /\ (updated /\ custom.factor.n > 0) =>
                               /\ res[name].kind = "float"
                               /\ custom.factor.n * res[name].n <= values[i].n
                               /\ values[i].n < custom.factor.n * (res[name].n + 1)
                /\ name \in DOMAIN hass_sensors =>
                      /\ hass_sensors[name]._key = custom.key
                      /\ hass_sensors[name]._unit_of_measurement = custom.unit
                /\ updated =>
                      \A s \in DOMAIN hass_sensors :
                          name \in DOMAIN hass_sensors[s]._attr =>
                             hass_sensors[s]._attr[name] =
                                 PyStr(res[name]) \o " " \o custom.unit

C16_Witness ==
    /\ updated /\ outcome = "completed"
    /\ DOMAIN config.custom = {"total_yield"}
    /\ config.custom["total_yield"].factor = Float_(2)
    /\ DOMAIN hass_sensors = {"total_yield", "current_power"}
    /\ hass_sensors["total_yield"]._key = "6380_40251E00"
    /\ hass_sensors["total_yield"]._unit_of_measurement = "V"
    /\ hass_sensors["total_yield"]._state = Float_(61728)
    /\ "total_yield" \in DOMAIN hass_sensors["current_power"]._attr
    /\ hass_sensors["current_power"]._attr["total_yield"] = "61728.0 V"

\* The absolute value of an integer.
Abs(n) == IF n < 0 THEN -n ELSE n

\* C17 as stated: the division truncates toward zero for every raw value:
\* for a positive divisor d and raw value r the normalized value v has
\* |v| * d <= |r| and is zero or of the sign of r (r = -1, d = 1000 gives 0).
C17_TruncatesTowardZero ==
    updated =>
        \A i \in DOMAIN names_to_query :
            LET d == sensor_defs[names_to_query[i]].factor.n
                r == values[i].n
                v == res[names_to_query[i]].n
            IN  d > 0 =>
                   /\ Abs(v) * d <= Abs(r)
                   /\ v = 0 \/ (v > 0 /\ r > 0) \/ (v < 0 /\ r < 0)
                   /\ (r = -1 /\ d = 1000) => v = 0

\* C17 as amended: the division rounds toward minus infinity: for a positive
\* divisor d and raw value r the normalized value v is the integer with
\* d*v <= r < d*(v+1); this is truncation toward zero for r >= 0 only, and
\* r = -1, d = 1000 gives -1.
C17_RoundsTowardMinusInfinity ==
    updated =>
        \A i \in DOMAIN names_to_query :
            LET d == sensor_defs[names_to_query[i]].factor.n
                r == values[i].n
                v == res[names_to_query[i]].n
            IN  d > 0 =>
                   /\ d * v <= r /\ r < d * (v + 1)
                   /\ r >= 0 => (v >= 0 /\ Abs(v) * d <= Abs(r))
                   /\ (r = -1 /\ d = 1000) => v = -1

C17_Witness ==
    /\ updated /\ outcome = "completed"
    /\ "total_yield" \in DOMAIN hass_sensors
    /\ sensor_defs["total_yield"].factor = Int_(1000)
    /\ \E i \in DOMAIN names_to_query :
          names_to_query[i] = "total_yield" /\ values[i] = Int_(-1)
    /\ res["total_yield"] = Int_(-1)
    /\ hass_sensors["total_yield"]._state = Int_(-1)

\* C18: a tick skipped for backoff and a tick whose poll returns no result
\* leave every sensor's state and attribute strings as they were and create
\* no notification task, so the sensors keep their last-known values through
\* a failure and its backoff period.
C18_FailureLeavesSensorsAlone ==
    [][((AtTick /\ backoff > 1) \/ (pc = "reading" /\ lastRead' = "None")) =>
          /\ hass_sensors' = hass_sensors
          /\ tasks' = {} /\ notified' = {}
          /\ pc' = "idle"
          /\ UNCHANGED <<res, updated>>]_vars

C18_Witness ==
    /\ updated /\ lastRead = "None" /\ outcome = "skipped" /\ backoff = 1
    /\ tasks = {} /\ notified = {}
    /\ Cardinality(DOMAIN hass_sensors) = 2
    /\ \A s \in DOMAIN hass_sensors :
          /\ hass_sensors[s]._state = res[s]
          /\ hass_sensors[s]._state # None

\* The program under a timer that keeps ticking: async_track_time_interval
\* (line 156) calls async_sma again after every interval, so a tick that can
\* start does start.
LiveSpec == Spec /\ WF_vars(Tick)

\* C19: as long as ticks keep arriving, the backoff is never permanent: after
\* a poll that returned no result (or raised) a new poll is eventually
\* attempted, even when every poll fails; each None result sets the counter
\* to 3, the counter stays within 0..3, and after a poll that returned values
\* the counter is at most 1, so the following tick is not skipped.
C19_BackoffNeverPermanent ==
    /\ [](backoff \in 0..3)
    /\ []((lastRead = "None" /\ sinceFail = 0) => backoff = 3)
    /\ [](lastRead = "values" => (backoff <= 1 /\ ~InBackoff(backoff)))
    /\ (lastRead \in {"None", "raised"}) ~> (pc = "reading")

C19_Witness ==
    /\ pc = "reading" /\ sinceFail = 3 /\ calls = 1 /\ backoff = 1
    /\ ~updated /\ read = << >>

\* C20: the first cycle that updates the sensors notifies every configured
\* sensor whatever values were polled, all zero or all missing included: a
\* sensor starts with state None and empty attribute strings, which differ
\* from any first computed value; until that first cycle every sensor's state
\* stays None and its attribute strings stay empty.
C20_FirstCycleNotifiesEverySensor ==
    /\ delta.kind = "first" => notified = DOMAIN hass_sensors
    /\ ~updated =>
          /\ delta.kind = "none" /\ notified = {}
          /\ \A s \in DOMAIN hass_sensors :
                /\ hass_sensors[s]._state = None
                /\ \A a \in DOMAIN hass_sensors[s]._attr :
                      hass_sensors[s]._attr[a] = ""
    /\ updated =>
          \A s \in DOMAIN hass_sensors :
              /\ hass_sensors[s]._state # None
              /\ \A a \in DOMAIN hass_sensors[s]._attr :
                    hass_sensors[s]._attr[a] # ""

C20_Witness ==
    /\ delta.kind = "first" /\ pc = "waiting"
    /\ \A i \in DOMAIN read : read[i] = None
    /\ Cardinality(DOMAIN hass_sensors) = 2
    /\ notified = DOMAIN hass_sensors
    /\ \E s \in DOMAIN hass_sensors : hass_sensors[s]._attr = EmptyMap
    /\ \A s \in DOMAIN hass_sensors : hass_sensors[s]._state.n = 0

====
